---- MODULE Spec2Model ----
(***************************************************************************)
(* Model of panopticon's core/src/function.rs: recursive-descent           *)
(* disassembly (disassemble), basic-block partition / CFG / IL layout      *)
(* (Function::assemble), and the mutators resolve_indirect_jump, extend    *)
(* and rewrite.                                                            *)
(*                                                                         *)
(* Conventions: vectors are TLA+ sequences; the indices the code stores    *)
(* (MnemonicIndex, BasicBlockIndex, NodeIndex, statement ranges) keep the  *)
(* code's 0-based values, so element i of a vector v is v[i + 1].          *)
(***************************************************************************)
EXTENDS Integers, Sequences, FiniteSets, TLC

(***************************************************************************)
(* Bounds of the model.                                                    *)
(***************************************************************************)
\* Largest region (in bytes/tokens) handed to the decoder.
RegionLen == 3
\* Number of mutating calls (resolve_indirect_jump, extend, rewrite, set_plt)
\* made after Function::new.
MaxOps == 2

Addrs == 0 .. RegionLen
\* Keys of the jump maps: every address a decoder of the model can name.
AddrDom == 0 .. (RegionLen + 2)

(***************************************************************************)
(* Sequence helpers.                                                       *)
(***************************************************************************)
\* Vec::insert(pos, e) with a 0-based position.
InsertAt(s, pos, e) == SubSeq(s, 1, pos) \o <<e>> \o SubSeq(s, pos + 1, Len(s))

\* Vec::remove(pos) with a 0-based position.
RemoveAt(s, pos) == SubSeq(s, 1, pos) \o SubSeq(s, pos + 2, Len(s))

Range(s) == {s[i] : i \in 1 .. Len(s)}

(***************************************************************************)
(* Values, r-values, guards, statements.                                   *)
(***************************************************************************)
NoSub == -1

\* Rvalue::Constant{value,size}, Rvalue::Variable{name,size,subscript,..},
\* Rvalue::Undefined, as the decoder emits them.
RConst(v, size) == [k |-> "const", v |-> v, name |-> "", bits |-> size, sub |-> NoSub]
RVar(name, size, sub) == [k |-> "var", v |-> 0, name |-> name, bits |-> size, sub |-> sub]
RUndef == [k |-> "undef", v |-> 0, name |-> "", bits |-> 0, sub |-> NoSub]

\* Value::Constant / Value::Variable / Value::Undefined.
VConst(v, bits) == [k |-> "const", v |-> v, name |-> "", bits |-> bits, sub |-> NoSub]
VVar(name, bits, sub) == [k |-> "var", v |-> 0, name |-> name, bits |-> bits, sub |-> sub]
VUndef == [k |-> "undef", v |-> 0, name |-> "", bits |-> 0, sub |-> NoSub]

\* Value::val(v, bits)? and Value::var(name, bits, sub)?: construction fails
\* for a zero-bit value.
ValOk(bits) == bits > 0

\* Statements: an operation name and the address of the mnemonic that
\* produced it.
Stmt(op, at) == [op |-> op, at |-> at]

\* IL::push(statement) -> Result<usize>: the container rejects the
\* statement, or stores it in Width storage units.
PushOk(st) == st.op # "bad"
Width(st) == IF st.op \in {"wide", "WIDE"} THEN 2 ELSE 1

\* The units push appends: the statement at its first unit, padding after.
Units(st) == IF Width(st) = 2 THEN <<st, Stmt("pad", st.at)>> ELSE <<st>>

\* IL::iter_statements(range): the statements whose units lie in [s0, s1).
RECURSIVE IterStatements(_, _, _)
IterStatements(code, s0, s1) ==
    IF s0 >= s1 \/ s0 >= Len(code) THEN <<>>
    ELSE LET st == code[s0 + 1]
         IN  <<st>> \o IterStatements(code, s0 + Width(st), s1)

(***************************************************************************)
(* The decoder (Architecture::decode), an input of the program.  A decode  *)
(* result (Match) carries mnemonics and jumps (origin, target, guard); a   *)
(* decoder is a function of the address and the region's length.  The      *)
(* decoders are those of the repository's tests and variants of them.      *)
(***************************************************************************)
\* A decoded mnemonic [a, a + len) with its statements.
DMne(a, len, stmts) == [start |-> a, end |-> a + len, opcode |-> "test", stmts |-> stmts]

\* Statements a test mnemonic at address a lifts to.
StmtsAt(a) == IF a % 2 = 0 THEN <<Stmt("add", a), Stmt("wide", a)>> ELSE <<Stmt("add", a)>>

Jump(origin, tgt, guard) == [origin |-> origin, tgt |-> tgt, guard |-> guard]

NoMatch == [ok |-> FALSE, mnemonics |-> <<>>, jumps |-> <<>>]
Match(mnes, jumps) == [ok |-> TRUE, mnemonics |-> mnes, jumps |-> jumps]

\* One 1-byte mnemonic at a with the given jump targets.
One(a, jumps) == Match(<<DMne(a, 1, StmtsAt(a))>>, jumps)

\* tests::single_instruction: no jumps.
DecSingle(a) == One(a, <<>>)

\* tests::single_block: every byte jumps to the next address.
DecChain(a) == One(a, <<Jump(a, RConst(a + 1, 64), "always")>>)

\* tests::single_loop, issue_51: a chain whose last byte jumps back to 0.
DecLoop(a, n) == One(a, <<Jump(a, RConst((a + 1) % n, 32), "always")>>)

\* tests::branch: 0 -> 1 and 2; 1 -> 3; 2 -> 1.
DecBranch(a) ==
    IF a = 0 THEN One(a, <<Jump(a, RConst(1, 32), "always"), Jump(a, RConst(2, 32), "always")>>)
    ELSE IF a % 2 = 1 THEN One(a, <<Jump(a, RConst(a + 2, 32), "always")>>)
    ELSE One(a, <<Jump(a, RConst(a - 1, 32), "always")>>)

\* tests::issue_232_overlap_with_entry_point: a 2-byte mnemonic at 0
\* covers the 1-byte mnemonic at 1.
DecOverlap(a, n) ==
    IF a = 0 THEN (IF n < 2 THEN NoMatch
                   ELSE Match(<<DMne(0, 2, StmtsAt(0))>>, <<Jump(0, RConst(2, 32), "always")>>))
    ELSE IF a = 1 THEN One(a, <<Jump(a, RConst(2, 32), "always")>>)
    ELSE One(a, <<Jump(a, RConst(0, 32), "always")>>)

\* tests::resolve_indirect, tests::entry_split: byte 1 jumps to variable A.
DecIndirect(a) ==
    IF a = 1 THEN One(a, <<Jump(a, RVar("A", 1, NoSub), "always")>>)
    ELSE DecChain(a)

\* Two blocks jump to the same variable; byte 1 falls through to byte 2
\* and also jumps to a variable and to an undefined target.
DecIndirect2(a) ==
    IF a = 0 THEN One(a, <<Jump(a, RConst(2, 32), "g1"), Jump(a, RVar("A", 1, 0), "g2")>>)
    ELSE IF a = 1 THEN One(a, <<Jump(a, RConst(2, 32), "g1"), Jump(a, RVar("B", 8, NoSub), "g2"),
                                Jump(a, RUndef, "g3")>>)
    ELSE One(a, <<Jump(a, RVar("A", 1, NoSub), "always"), Jump(a, RVar("B", 8, NoSub), "g1")>>)

\* A decode result that carries two mnemonics (State::mnemonic called
\* twice) at odd addresses.
DecMulti(a, n) ==
    IF a % 2 = 1
    THEN (IF a + 2 > n THEN NoMatch
          ELSE Match(<<DMne(a, 1, StmtsAt(a)), DMne(a + 1, 1, StmtsAt(a + 1))>>,
                     <<Jump(a, RConst(a + 1, 64), "always"),
                       Jump(a + 1, RConst(a + 2, 64), "always")>>))
    ELSE DecChain(a)

\* Every decode result carries two mnemonics where two bytes are left, one
\* where one byte is left.
DecPairs(a, n) ==
    IF a + 2 > n THEN DecChain(a)
    ELSE Match(<<DMne(a, 1, StmtsAt(a)), DMne(a + 1, 1, StmtsAt(a + 1))>>,
               <<Jump(a, RConst(a + 1, 64), "always"),
                 Jump(a + 1, RConst(a + 2, 64), "always")>>)

\* The same target named twice with different guards; a match without
\* mnemonics at byte 1.
DecDup(a) ==
    IF a = 0 THEN One(a, <<Jump(a, RConst(2, 32), "g1"), Jump(a, RConst(1, 32), "g1"),
                           Jump(a, RConst(2, 32), "g2")>>)
    ELSE IF a = 1 THEN Match(<<>>, <<Jump(a, RConst(2, 32), "always")>>)
    ELSE One(a, <<Jump(a, RConst(a, 32), "g1"), Jump(a, RConst(a, 32), "g2")>>)

\* Byte 0 jumps to variable A; byte 1 emits a zero-bit variable; byte 2
\* lifts to a statement the IL container rejects.
DecFaulty(a) ==
    IF a = 0 THEN One(a, <<Jump(a, RVar("A", 1, NoSub), "always")>>)
    ELSE IF a = 1 THEN One(a, <<Jump(a, RVar("Z", 0, NoSub), "always")>>)
    ELSE Match(<<DMne(a, 1, <<Stmt("bad", a)>>)>>, <<>>)

\* A 2-byte mnemonic at 0 that jumps to 2, and byte 2 jumps back into it,
\* to address 1.
DecInside(a, n) ==
    IF a = 0 THEN (IF n < 2 THEN NoMatch
                   ELSE Match(<<DMne(0, 2, StmtsAt(0))>>, <<Jump(0, RConst(2, 32), "always")>>))
    ELSE IF a = 2 THEN One(a, <<Jump(a, RConst(1, 32), "always")>>)
    ELSE One(a, <<>>)

\* A match without mnemonics that jumps to the next byte, the last byte
\* jumping back to 0 (no match in a region of one byte).
DecGhost(a, n) ==
    IF n < 2 THEN NoMatch
    ELSE Match(<<>>, <<Jump(a, RConst((a + 1) % n, 32), "always")>>)

\* Two mnemonics per match, the second jumping on, the last back to 0.
DecPairsLoop(a, n) ==
    IF a + 2 > n THEN DecLoop(a, n)
    ELSE Match(<<DMne(a, 1, StmtsAt(a)), DMne(a + 1, 1, StmtsAt(a + 1))>>,
               <<Jump(a, RConst(a + 1, 64), "always"),
                 Jump(a + 1, RConst((a + 2) % n, 64), "always")>>)

Decoders == {"single", "chain", "loop", "branch", "overlap", "indirect",
             "indirect2", "multi", "pairs", "dup", "faulty"}

\* A::decode(region, addr, init): no match outside the region.
Decode(dec, n, a) ==
    IF a >= n THEN NoMatch
    ELSE CASE dec = "single" -> DecSingle(a)
           [] dec = "chain" -> DecChain(a)
           [] dec = "loop" -> DecLoop(a, n)
           [] dec = "branch" -> DecBranch(a)
           [] dec = "overlap" -> DecOverlap(a, n)
           [] dec = "indirect" -> DecIndirect(a)
           [] dec = "indirect2" -> DecIndirect2(a)
           [] dec = "multi" -> DecMulti(a, n)
           [] dec = "pairs" -> DecPairs(a, n)
           [] dec = "ghost" -> DecGhost(a, n)
           [] dec = "inside" -> DecInside(a, n)
           [] dec = "pairsloop" -> DecPairsLoop(a, n)
           [] dec = "dup" -> DecDup(a)
           [] OTHER -> DecFaulty(a)

(***************************************************************************)
(* slice::binary_search_by_key, as the standard library of the code's      *)
(* time implements it (split at len/2, compare the first element of the    *)
(* tail).  ks is the sequence of keys; the result is found/pos with a      *)
(* 0-based position (Ok(pos) / Err(pos)).                                  *)
(***************************************************************************)
RECURSIVE BSearch(_, _, _, _)
BSearch(ks, base, len, key) ==
    LET h == len \div 2
    IN  IF len - h = 0 THEN [found |-> FALSE, pos |-> base]
        ELSE LET t == ks[base + h + 1]
             IN  IF t < key THEN BSearch(ks, base + h + 1, len - h - 1, key)
                 ELSE IF t > key THEN BSearch(ks, base, h, key)
                 ELSE [found |-> TRUE, pos |-> base + h]

BinarySearch(ks, key) == BSearch(ks, 0, Len(ks), key)

(***************************************************************************)
(* disassemble: one iteration of the work-queue loop for a popped address. *)
(* The locals are mnemonics (vector of mnemonic + statements), by_source,  *)
(* by_destination and todo.                                                *)
(***************************************************************************)
\* A (Mnemonic, Vec<Statement>) pair of the working vector.
Pair(start, end, opcode, s0, s1, stmts) ==
    [start |-> start, end |-> end, opcode |-> opcode, s0 |-> s0, s1 |-> s1, stmts |-> stmts]

EmptyMap == [a \in AddrDom |-> <<>>]

\* HashMap entry(key).or_insert(Vec::new()).push(e)
MapPush(m, key, e) == [m EXCEPT ![key] = Append(@, e)]

\* for mne in match_st.mnemonics { mnemonics.insert(pos, ...) }: every
\* mnemonic of the match is inserted at the same position pos.
RECURSIVE InsertMnemonics(_, _, _)
InsertMnemonics(vec, pos, mnes) ==
    IF mnes = <<>> THEN vec
    ELSE LET m == Head(mnes)
         IN  InsertMnemonics(InsertAt(vec, pos, Pair(m.start, m.end, m.opcode, 0, 0, m.stmts)),
                             pos, Tail(mnes))

\* for (origin, tgt, gu) in match_st.jumps { ... }: st is
\* [src, dst, todo, err]; a failed Value construction ends the loop.
RECURSIVE RecordJumps(_, _)
RecordJumps(st, jumps) ==
    IF jumps = <<>> \/ st.err THEN st
    ELSE LET j == Head(jumps)
             t == j.tgt
         IN  IF t.k = "const"
             THEN IF ~ValOk(t.bits) THEN [st EXCEPT !.err = TRUE]
                  ELSE RecordJumps(
                         [src |-> MapPush(st.src, j.origin, [val |-> VConst(t.v, t.bits), guard |-> j.guard]),
                          dst |-> MapPush(st.dst, t.v, [val |-> VConst(j.origin, 64), guard |-> j.guard]),
                          todo |-> st.todo \cup {t.v},
                          err |-> FALSE], Tail(jumps))
             ELSE IF t.k = "var"
             THEN IF ~ValOk(t.bits) THEN [st EXCEPT !.err = TRUE]
                  ELSE RecordJumps(
                         [st EXCEPT !.src = MapPush(st.src, j.origin,
                                                   [val |-> VVar(t.name, t.bits, NoSub), guard |-> j.guard])],
                         Tail(jumps))
             ELSE RecordJumps(
                    [st EXCEPT !.src = MapPush(st.src, j.origin, [val |-> VUndef, guard |-> j.guard])],
                    Tail(jumps))

MneStarts(vec) == [i \in 1 .. Len(vec) |-> vec[i].start]

\* The body of `while let Some(addr) = todo.iter().next()`: loc is
\* [mnemonics, src, dst, todo, err] and addr an element of loc.todo.
disassemble_decoded(m, loc, addr) ==
    LET todo1 == loc.todo \ {addr}
        bs == BinarySearch(MneStarts(loc.mnemonics), addr)
    IN  IF bs.found
        THEN [loc EXCEPT !.todo = todo1]
        ELSE IF ~m.ok THEN [loc EXCEPT !.todo = todo1]
        ELSE LET vec == InsertMnemonics(loc.mnemonics, bs.pos, m.mnemonics)
                 r == RecordJumps([src |-> loc.src, dst |-> loc.dst,
                                   todo |-> todo1, err |-> FALSE], m.jumps)
             IN  [loc EXCEPT !.mnemonics = vec, !.src = r.src, !.dst = r.dst,
                             !.todo = r.todo, !.err = r.err]

\* with m the result of A::decode(region, addr, init) for the popped address.
disassemble_step(dec, n, loc, addr) == disassemble_decoded(Decode(dec, n, addr), loc, addr)

\* disassemble's loop run to its end with the pending address popped in
\* one fixed order, the smallest first.
RECURSIVE disassemble_ascending(_, _, _)
disassemble_ascending(dec, n, loc) ==
    IF loc.err \/ loc.todo = {} THEN loc
    ELSE disassemble_ascending(dec, n,
             disassemble_step(dec, n, loc, CHOOSE a \in loc.todo : \A b \in loc.todo : a <= b))

(***************************************************************************)
(* is_basic_block_boundary(a, b, entry, by_source, by_destination)         *)
(***************************************************************************)
\* .iter().any(|(v, _)| if let Constant{value} = v { value != x } else { false })
AnyConstOther(list, x) ==
    \E i \in 1 .. Len(list) : list[i].val.k = "const" /\ list[i].val.v # x

\* A variant that lets every jump target other than the constant b.start
\* (a variable or an undefined one too) end the block.
boundary_on_any_jump(a, b, entry, by_source, by_destination) ==
    \/ a.end # b.start
    \/ \E i \in 1 .. Len(by_source[a.start]) :
          ~(by_source[a.start][i].val.k = "const" /\ by_source[a.start][i].val.v = b.start)
    \/ AnyConstOther(by_destination[b.start], a.start)
    \/ b.start = entry

is_basic_block_boundary(a, b, entry, by_source, by_destination) ==
    LET new_bb0 == a.end # b.start
        new_bb1 == new_bb0 \/ AnyConstOther(by_source[a.start], b.start)
        new_bb2 == new_bb1 \/ AnyConstOther(by_destination[b.start], a.start)
    IN  new_bb2 \/ b.start = entry

(***************************************************************************)
(* Function::assemble, phase by phase.                                     *)
(***************************************************************************)
BasicBlock(m0, m1, node, a0, a1) == [m0 |-> m0, m1 |-> m1, node |-> node, a0 |-> a0, a1 |-> a1]

\* A variant whose scan skips the first window of the slice.
RECURSIVE NextBBLate(_, _, _, _, _)
NextBBLate(vec, j, entry, src, dst) ==
    IF j + 2 >= Len(vec) THEN Len(vec)
    ELSE IF is_basic_block_boundary(vec[j + 2], vec[j + 3], entry, src, dst) THEN j + 2
    ELSE NextBBLate(vec, j + 1, entry, src, dst)

\* windows(2).position(boundary).map(|x| x + 1 + idx).unwrap_or(len): the
\* 0-based index of the first mnemonic of the next block.
RECURSIVE NextBB(_, _, _, _, _)
NextBB(vec, j, entry, src, dst) ==
    IF j + 1 >= Len(vec) THEN Len(vec)
    ELSE IF is_basic_block_boundary(vec[j + 1], vec[j + 2], entry, src, dst) THEN j + 1
    ELSE NextBB(vec, j + 1, entry, src, dst)

\* Partition mnemonics into basic blocks (every node handle is 0 here).
RECURSIVE Partition(_, _, _, _, _)
Partition(vec, idx, entry, src, dst) ==
    IF idx >= Len(vec) THEN <<>>
    ELSE IF Len(vec) - idx > 1
    THEN LET next_bb == NextBB(vec, idx, entry, src, dst)
         IN  <<BasicBlock(idx, next_bb, 0, vec[idx + 1].start, vec[next_bb].end)>>
             \o Partition(vec, next_bb, entry, src, dst)
    ELSE <<BasicBlock(idx, Len(vec), 0, vec[idx + 1].start, vec[idx + 1].end)>>

\* CfgNode::BasicBlock(idx) and CfgNode::Value(val).
NodeBB(i) == [t |-> "bb", bb |-> i, val |-> VUndef]
NodeVal(v) == [t |-> "val", bb |-> 0, val |-> v]

EmptyGraph == [nodes |-> <<>>, edges |-> <<>>]

\* for (i, bb) in basic_blocks.iter_mut().enumerate() { bb.node = cfg.add_node(..) }
WithNodes(bbs) == [i \in 1 .. Len(bbs) |-> [bbs[i] EXCEPT !.node = i - 1]]
BlockNodes(bbs) == [i \in 1 .. Len(bbs) |-> NodeBB(i - 1)]

\* Graph::update_edge(a, b, w): set the weight of the edge a -> b, or add it.
\* A variant that appends an edge even when one joins a and b already
\* (Graph::add_edge).
add_edge(g, a, b, w) == [g EXCEPT !.edges = Append(@, [src |-> a, dst |-> b, guard |-> w])]

update_edge(g, a, b, w) ==
    IF \E i \in 1 .. Len(g.edges) : g.edges[i].src = a /\ g.edges[i].dst = b
    THEN [g EXCEPT !.edges = [i \in 1 .. Len(g.edges) |->
                                IF g.edges[i].src = a /\ g.edges[i].dst = b
                                THEN [g.edges[i] EXCEPT !.guard = w] ELSE g.edges[i]]]
    ELSE [g EXCEPT !.edges = Append(@, [src |-> a, dst |-> b, guard |-> w])]

\* Graph::add_node(weight) followed by update_edge(a, new node, w).
AddValueEdge(g, a, val, w) ==
    update_edge([g EXCEPT !.nodes = Append(@, NodeVal(val))], a, Len(g.nodes), w)

BlockStarts(bbs) == [i \in 1 .. Len(bbs) |-> bbs[i].a0]

\* for &(ref val, ref guard) in ct.iter() { match val { ... } }
RECURSIVE AddJumps(_, _, _, _)
AddJumps(g, bbs, bb, ct) ==
    IF ct = <<>> THEN g
    ELSE LET e == Head(ct)
             bs == BinarySearch(BlockStarts(bbs), e.val.v)
             g1 == IF e.val.k = "const" /\ bs.found
                   THEN update_edge(g, bb.node, bbs[bs.pos + 1].node, e.guard)
                   ELSE AddValueEdge(g, bb.node, e.val, e.guard)
         IN  AddJumps(g1, bbs, bb, Tail(ct))

\* for bb in basic_blocks.iter() { by_source.get(last_mne.area.start) ... }
RECURSIVE BuildEdges(_, _, _, _, _)
BuildEdges(g, bbs, i, vec, src) ==
    IF i > Len(bbs) THEN g
    ELSE LET last_mne == vec[bbs[i].m1]
         IN  BuildEdges(AddJumps(g, bbs, bbs[i], src[last_mne.start]), bbs, i + 1, vec, src)

\* A variant that falls back to the first block when no block starts at
\* the entry.
EntryIdxOrFirst(bbs, entry) ==
    IF \E i \in 1 .. Len(bbs) : bbs[i].a0 = entry
    THEN (CHOOSE i \in 1 .. Len(bbs) :
              bbs[i].a0 = entry /\ \A j \in 1 .. (i - 1) : bbs[j].a0 # entry) - 1
    ELSE IF bbs = <<>> THEN -1 ELSE 0

\* basic_blocks.iter().position(|x| x.area.start == entry): 0-based, or -1.
EntryIdx(bbs, entry) ==
    IF \E i \in 1 .. Len(bbs) : bbs[i].a0 = entry
    THEN (CHOOSE i \in 1 .. Len(bbs) :
              bbs[i].a0 = entry /\ \A j \in 1 .. (i - 1) : bbs[j].a0 # entry) - 1
    ELSE -1

\* Graph::neighbors(n): the targets of n's out-edges, last added edge first.
RECURSIVE Neighbors(_, _, _)
Neighbors(edges, n, i) ==
    IF i = 0 THEN <<>>
    ELSE (IF edges[i].src = n THEN <<edges[i].dst>> ELSE <<>>) \o Neighbors(edges, n, i - 1)

NotIn(seq, set) == SelectSeq(seq, LAMBDA x : x \notin set)

\* petgraph::visit::DfsPostOrder: the sequence of nodes next() yields.
RECURSIVE DfsPostOrder(_, _, _, _, _)
DfsPostOrder(edges, stack, discovered, finished, out) ==
    IF stack = <<>> THEN out
    ELSE LET nx == stack[Len(stack)]
         IN  IF nx \notin discovered
             THEN DfsPostOrder(edges,
                               stack \o NotIn(Neighbors(edges, nx, Len(edges)), discovered \cup {nx}),
                               discovered \cup {nx}, finished, out)
             ELSE IF nx \notin finished
             THEN DfsPostOrder(edges, SubSeq(stack, 1, Len(stack) - 1), discovered,
                               finished \cup {nx}, Append(out, nx))
             ELSE DfsPostOrder(edges, SubSeq(stack, 1, Len(stack) - 1), discovered, finished, out)

\* for statement in instr.drain(..) { end += bitcode.push(statement)?; }:
\* st is [code, err].
RECURSIVE PushAll(_, _)
PushAll(st, stmts) ==
    IF stmts = <<>> \/ st.err THEN st
    ELSE IF ~PushOk(Head(stmts)) THEN [st EXCEPT !.err = TRUE]
    ELSE PushAll([st EXCEPT !.code = @ \o Units(Head(stmts))], Tail(stmts))

\* The mnemonics m .. m1-1 of one block: st is [code, ranges, err], ranges
\* the statement_ranges vector.
RECURSIVE EmitBlock(_, _, _, _)
EmitBlock(st, vec, m, m1) ==
    IF m >= m1 \/ st.err THEN st
    ELSE LET start == Len(st.code)
             r == PushAll([code |-> st.code, err |-> FALSE], vec[m + 1].stmts)
         IN  EmitBlock([code |-> r.code,
                        ranges |-> [st.ranges EXCEPT ![m + 1] = <<start, Len(r.code)>>],
                        err |-> r.err], vec, m + 1, m1)

\* for n in postorder { if let Some(&CfgNode::BasicBlock(idx)) = ... }
RECURSIVE EmitIL(_, _, _, _, _)
EmitIL(st, order, nodes, bbs, vec) ==
    IF order = <<>> \/ st.err THEN st
    ELSE LET nd == nodes[Head(order) + 1]
         IN  IF nd.t = "bb"
             THEN EmitIL(EmitBlock(st, vec, bbs[nd.bb + 1].m0, bbs[nd.bb + 1].m1),
                         Tail(order), nodes, bbs, vec)
             ELSE EmitIL(st, Tail(order), nodes, bbs, vec)

Mnemonic(start, end, opcode, s0, s1) ==
    [start |-> start, end |-> end, opcode |-> opcode, s0 |-> s0, s1 |-> s1]

\* Function::assemble(self, entry, mnemonics, by_source, by_destination):
\* the result is [err, func]; func is self unless err = "none".
assemble(self, entry, vec, by_source, by_destination) ==
    LET basic_blocks == WithNodes(Partition(vec, 0, entry, by_source, by_destination))
        cfg == BuildEdges([nodes |-> BlockNodes(basic_blocks), edges |-> <<>>],
                          basic_blocks, 1, vec, by_source)
        entry_idx == EntryIdx(basic_blocks, entry)
    IN  IF entry_idx < 0 THEN [err |-> "entry", func |-> self]
        ELSE LET postorder == DfsPostOrder(cfg.edges, <<basic_blocks[entry_idx + 1].node>>,
                                           {}, {}, <<>>)
                 il == EmitIL([code |-> <<>>, ranges |-> [i \in 1 .. Len(vec) |-> <<0, 0>>],
                               err |-> FALSE], postorder, cfg.nodes, basic_blocks, vec)
             IN  IF il.err THEN [err |-> "push", func |-> self]
                 ELSE [err |-> "none",
                       func |-> [self EXCEPT
                           !.code = il.code,
                           !.basic_blocks = basic_blocks,
                           !.mnemonics = [i \in 1 .. Len(vec) |->
                               Mnemonic(vec[i].start, vec[i].end, vec[i].opcode,
                                        il.ranges[i][1], il.ranges[i][2])],
                           !.cflow_graph = cfg,
                           !.entry_point = entry_idx]]

(***************************************************************************)
(* The Function aggregate.                                                 *)
(***************************************************************************)
\* The Function literal of Function::new, before disassembly.
NewFunction(start) ==
    [name |-> [base |-> "func_", n |-> start, suffix |-> ""],
     uuid |-> "new_v4",
     kind |-> "Regular",
     aliases |-> <<>>,
     code |-> <<>>,
     basic_blocks |-> <<>>,
     mnemonics |-> <<>>,
     cflow_graph |-> EmptyGraph,
     entry_point |-> 0]

\* Function::entry_address
entry_address(self) == self.basic_blocks[self.entry_point + 1].a0

\* Function::indirect_jumps: the variables of the Value nodes, in node order.
RECURSIVE IndirectFrom(_, _)
IndirectFrom(nodes, i) ==
    IF i > Len(nodes) THEN <<>>
    ELSE (IF nodes[i].t = "val" /\ nodes[i].val.k = "var" THEN <<nodes[i].val>> ELSE <<>>)
         \o IndirectFrom(nodes, i + 1)

indirect_jumps(self) == IndirectFrom(self.cflow_graph.nodes, 1)

\* A variant that compares name and bits only, not the subscript.
resolve_ignoring_subscript(self, var, val) ==
    LET nodes == self.cflow_graph.nodes
        hit(i) == /\ nodes[i].t = "val" /\ nodes[i].val.k = "var"
                  /\ nodes[i].val.name = var.name /\ nodes[i].val.bits = var.bits
    IN  IF \E i \in 1 .. Len(nodes) : hit(i)
        THEN LET n == CHOOSE i \in 1 .. Len(nodes) : hit(i) /\ \A j \in 1 .. (i - 1) : ~hit(j)
             IN  [ret |-> TRUE,
                  func |-> [self EXCEPT !.cflow_graph.nodes[n] = NodeVal(val)]]
        ELSE [ret |-> FALSE, func |-> self]

\* Function::resolve_indirect_jump(var, val): [ret, func].
resolve_indirect_jump(self, var, val) ==
    LET nodes == self.cflow_graph.nodes
        hit(i) == nodes[i].t = "val" /\ nodes[i].val = var
    IN  IF \E i \in 1 .. Len(nodes) : hit(i)
        THEN LET n == CHOOSE i \in 1 .. Len(nodes) : hit(i) /\ \A j \in 1 .. (i - 1) : ~hit(j)
             IN  [ret |-> TRUE,
                  func |-> [self EXCEPT !.cflow_graph.nodes[n] = NodeVal(val)]]
        ELSE [ret |-> FALSE, func |-> self]

\* Function::set_plt(name, plt_address)
set_plt(self) ==
    [self EXCEPT !.aliases = Append(@, self.name),
                 !.name = [base |-> "import", n |-> 0, suffix |-> "@plt"],
                 !.kind = "Stub"]

\* Function::mnemonics(block): [ok, items], the mnemonics the iterator
\* yields; ok is FALSE when computing idx.end - 1 or indexing panics.
mnemonics(self, b) ==
    LET bb == self.basic_blocks[b + 1]
    IN  IF bb.m1 = 0 THEN [ok |-> FALSE, items |-> <<>>]
        ELSE [ok |-> TRUE,
              items |-> [k \in 1 .. (IF bb.m1 > bb.m0 THEN bb.m1 - bb.m0 ELSE 0) |->
                            self.mnemonics[bb.m0 + k]]]

\* IntoStatementRange for &BasicBlock: [ok, s0, s1], from the first
\* mnemonic's range start to the last mnemonic's range end; ok is FALSE
\* when an index is outside the mnemonic vector.
into_statement_range(self, b) ==
    LET bb == self.basic_blocks[b + 1]
    IN  IF bb.m1 = 0 \/ bb.m0 >= Len(self.mnemonics) THEN [ok |-> FALSE, s0 |-> 0, s1 |-> 0]
        ELSE [ok |-> TRUE, s0 |-> self.mnemonics[bb.m0 + 1].s0, s1 |-> self.mnemonics[bb.m1].s1]

\* Function::statements(block): [ok, items].
statements(self, b) ==
    LET r == into_statement_range(self, b)
    IN  IF ~r.ok THEN [ok |-> FALSE, items |-> <<>>]
        ELSE [ok |-> TRUE, items |-> IterStatements(self.code, r.s0, r.s1)]

\* Function::statements(mnemonic): the statements of one mnemonic.
statements_mne(self, m) == IterStatements(self.code, m.s0, m.s1)

\* Function::statements(..): the statements of the whole IL container.
statements_all(self) == IterStatements(self.code, 0, Len(self.code))

\* Function::basic_blocks(): the block indices (0-based) in the order the
\* iterator yields them, index 0 up to len - 1.
basic_blocks_iter(self) == [i \in 1 .. Len(self.basic_blocks) |-> i - 1]

\* Function::contains(address)
contains(self, address) ==
    \E i \in 1 .. Len(self.basic_blocks) :
        self.basic_blocks[i].a0 >= address /\ address < self.basic_blocks[i].a1

\* The BasicBlockIterator that Function::basic_blocks() returns: [index, max].
BasicBlockIterator(self) == [index |-> 0, max |-> Len(self.basic_blocks) - 1]

\* The None of an iterator call.
None == -1

\* BasicBlockIterator::next: [it, item], item the block index yielded.
iter_next(it) ==
    IF it.index <= it.max THEN [it |-> [it EXCEPT !.index = @ + 1], item |-> it.index]
    ELSE [it |-> it, item |-> None]

\* BasicBlockIterator::next_back
iter_next_back(it) ==
    IF it.max > 0 THEN [it |-> [it EXCEPT !.max = @ - 1], item |-> it.max - 1]
    ELSE [it |-> it, item |-> None]

\* ExactSizeIterator::len: the values self.max - self.index + 1 can give
\* in usize; when max < index the subtraction overflows, which panics in a
\* build with overflow checks (None here) and wraps to 0 without them.
iter_len(it) == IF it.max >= it.index THEN {it.max - it.index + 1} ELSE {0, None}

(***************************************************************************)
(* Function::extend: the locals it hands to disassemble.                   *)
(***************************************************************************)
\* self.mnemonics.iter().map(|mne| (mne.clone(), statements(mne.statements)))
ExtendVec(self) ==
    [i \in 1 .. Len(self.mnemonics) |->
        LET m == self.mnemonics[i]
        IN  Pair(m.start, m.end, m.opcode, m.s0, m.s1, IterStatements(self.code, m.s0, m.s1))]

\* Indexing self.mnemonics with bb.mnemonics.end - 1 or bb.mnemonics.start
\* panics when the index is outside the vector.
ExtendPanics(self) ==
    \E i \in 1 .. Len(self.cflow_graph.edges) :
        LET e == self.cflow_graph.edges[i]
            sn == self.cflow_graph.nodes[e.src + 1]
            dn == self.cflow_graph.nodes[e.dst + 1]
        IN  \/ sn.t # "bb"
            \/ self.basic_blocks[sn.bb + 1].m1 = 0
            \/ dn.t = "bb" /\ self.basic_blocks[dn.bb + 1].m0 >= Len(self.mnemonics)

\* for e in self.cflow_graph.edge_references() { ... }: st is [src, dst, starts].
RECURSIVE EdgeMaps(_, _, _)
EdgeMaps(self, i, st) ==
    IF i > Len(self.cflow_graph.edges) THEN st
    ELSE LET e == self.cflow_graph.edges[i]
             sn == self.cflow_graph.nodes[e.src + 1]
             dn == self.cflow_graph.nodes[e.dst + 1]
             src == self.mnemonics[self.basic_blocks[sn.bb + 1].m1].start
             dst == IF dn.t = "bb"
                    THEN VConst(self.mnemonics[self.basic_blocks[dn.bb + 1].m0 + 1].start, 64)
                    ELSE dn.val
             src1 == MapPush(st.src, src, [val |-> dst, guard |-> e.guard])
         IN  EdgeMaps(self, i + 1,
                 IF dst.k = "const"
                 THEN [src |-> src1,
                       dst |-> MapPush(st.dst, dst.v, [val |-> VConst(src, 64), guard |-> e.guard]),
                       starts |-> st.starts \cup {dst.v}]
                 ELSE [st EXCEPT !.src = src1])

\* A variant that hands no start address to disassemble.
ExtendLocalsNoStarts(self) ==
    LET m == EdgeMaps(self, 1, [src |-> EmptyMap, dst |-> EmptyMap, starts |-> {}])
    IN  [mnemonics |-> ExtendVec(self), src |-> m.src, dst |-> m.dst, todo |-> {},
         err |-> FALSE, entry |-> entry_address(self)]

\* The locals of extend when it calls disassemble.
ExtendLocals(self) ==
    LET m == EdgeMaps(self, 1, [src |-> EmptyMap, dst |-> EmptyMap, starts |-> {}])
    IN  [mnemonics |-> ExtendVec(self), src |-> m.src, dst |-> m.dst, todo |-> m.starts,
         err |-> FALSE, entry |-> entry_address(self)]

(***************************************************************************)
(* Function::rewrite.                                                      *)
(***************************************************************************)
\* The editable view: per block, its mnemonics with their statements.
View(self) ==
    [b \in 1 .. Len(self.basic_blocks) |->
        LET bb == self.basic_blocks[b]
        IN  [k \in 1 .. (IF bb.m1 > bb.m0 THEN bb.m1 - bb.m0 ELSE 0) |->
                LET m == self.mnemonics[bb.m0 + k]
                IN  Pair(m.start, m.end, m.opcode, m.s0, m.s1,
                         IterStatements(self.code, m.s0, m.s1))]]

\* self.mnemonics(range) computes idx.end - 1 in usize: an empty range
\* ending at 0 underflows and the iteration panics.
RewritePanics(self) == \E b \in 1 .. Len(self.basic_blocks) : self.basic_blocks[b].m1 = 0

Upper(op) == CASE op = "add" -> "ADD" [] op = "wide" -> "WIDE" [] op = "and" -> "AND"
               [] op = "sub" -> "SUB" [] OTHER -> op

\* The transformers (the closure f): those of the tests and variants.
\* Each is [kind, b, j]: a block index and a position in it, 0-based.
\* "gap" puts a mnemonic with a wrong address in front of block b,
\* "gapfail" does so and returns Err, "badgap" gives that mnemonic a
\* statement the IL container rejects.
Edits(view) ==
    {[kind |-> k, b |-> 0, j |-> 0] : k \in {"id", "fail", "rename"}}
    \cup {[kind |-> k, b |-> b - 1, j |-> 0] :
            k \in {"insert", "gap", "gapfail", "badgap"},
            b \in {x \in 1 .. Len(view) : Len(view[x]) > 0}}
    \cup UNION {{[kind |-> k, b |-> b - 1, j |-> j - 1] : k \in {"remove", "add", "addbad"},
                                                         j \in 1 .. Len(view[b])} :
                b \in 1 .. Len(view)}

\* f(blocks.as_mut_slice()): [ok, blocks].
ApplyEdit(ed, view) ==
    LET blk == view[ed.b + 1]
        first == blk[1].start
        withStmts(extra) == [view EXCEPT ![ed.b + 1][ed.j + 1].stmts = @ \o extra]
    IN  CASE ed.kind = "id" -> [ok |-> TRUE, blocks |-> view]
          [] ed.kind = "fail" -> [ok |-> FALSE, blocks |-> view]
          [] ed.kind = "rename" ->
               [ok |-> TRUE,
                blocks |-> [b \in 1 .. Len(view) |-> [k \in 1 .. Len(view[b]) |->
                    [view[b][k] EXCEPT !.stmts =
                        [i \in 1 .. Len(@) |-> Stmt(Upper(@[i].op), @[i].at)]]]]]
          [] ed.kind = "insert" ->
               [ok |-> TRUE,
                blocks |-> [view EXCEPT ![ed.b + 1] =
                    InsertAt(@, 0, Pair(first, first, "test", 0, 0,
                                        <<Stmt("and", first), Stmt("sub", first)>>))]]
          [] ed.kind \in {"gap", "gapfail"} ->
               [ok |-> ed.kind = "gap",
                blocks |-> [view EXCEPT ![ed.b + 1] =
                    InsertAt(@, 0, Pair(first + 1, first + 1, "test", 0, 0, <<>>))]]
          [] ed.kind = "badgap" ->
               [ok |-> TRUE,
                blocks |-> [view EXCEPT ![ed.b + 1] =
                    InsertAt(@, 0, Pair(first + 1, first + 1, "test", 0, 0,
                                        <<Stmt("bad", first)>>))]]
          [] ed.kind = "remove" ->
               [ok |-> TRUE, blocks |-> [view EXCEPT ![ed.b + 1] = RemoveAt(@, ed.j)]]
          [] ed.kind = "add" ->
               [ok |-> TRUE, blocks |-> withStmts(<<Stmt("and", first)>>)]
          [] OTHER ->
               [ok |-> TRUE, blocks |-> withStmts(<<Stmt("bad", first)>>)]

\* A variant without the check of prev_addr against mne.area.start.
RECURSIVE RewriteBlockNoGapCheck(_, _)
RewriteBlockNoGapCheck(st, mnes) ==
    IF mnes = <<>> \/ st.err # "none" THEN st
    ELSE LET m == Head(mnes)
             start == Len(st.code)
             r == PushAll([code |-> st.code, err |-> FALSE], m.stmts)
         IN  IF r.err THEN [st EXCEPT !.err = "push"]
             ELSE RewriteBlockNoGapCheck(
                    [code |-> r.code,
                     mnemonics |-> Append(st.mnemonics,
                         Mnemonic(m.start, m.end, m.opcode, start, Len(r.code))),
                     prev |-> m.end,
                     err |-> "none"], Tail(mnes))

\* for (mut mne, stmts) in mnes.into_iter() { ... }: st is
\* [code, mnemonics, prev, err]; prev is prev_addr (-1 for None).
RECURSIVE RewriteBlock(_, _)
RewriteBlock(st, mnes) ==
    IF mnes = <<>> \/ st.err # "none" THEN st
    ELSE LET m == Head(mnes)
         IN  IF st.prev # -1 /\ st.prev # m.start THEN [st EXCEPT !.err = "gap"]
             ELSE LET start == Len(st.code)
                      r == PushAll([code |-> st.code, err |-> FALSE], m.stmts)
                  IN  IF r.err THEN [st EXCEPT !.err = "push"]
                      ELSE RewriteBlock(
                             [code |-> r.code,
                              mnemonics |-> Append(st.mnemonics,
                                  Mnemonic(m.start, m.end, m.opcode, start, Len(r.code))),
                              prev |-> m.end,
                              err |-> "none"], Tail(mnes))

\* A variant that keeps prev_addr from one block to the next.
RECURSIVE RewriteBlocksCarry(_, _)
RewriteBlocksCarry(st, blocks) ==
    IF blocks = <<>> \/ st.err # "none" THEN st
    ELSE LET fst_mne == Len(st.mnemonics)
             r == RewriteBlock([code |-> st.code, mnemonics |-> st.mnemonics,
                                prev |-> IF st.mnemonics = <<>> THEN -1
                                         ELSE st.mnemonics[Len(st.mnemonics)].end,
                                err |-> "none"], Head(blocks))
         IN  RewriteBlocksCarry([code |-> r.code, mnemonics |-> r.mnemonics,
                                 ranges |-> Append(st.ranges, <<fst_mne, Len(r.mnemonics)>>),
                                 err |-> r.err], Tail(blocks))

\* for (bb_idx, mnes) in blocks.into_iter().enumerate() { ... }: st is
\* [code, mnemonics, ranges, err].
RECURSIVE RewriteBlocks(_, _)
RewriteBlocks(st, blocks) ==
    IF blocks = <<>> \/ st.err # "none" THEN st
    ELSE LET fst_mne == Len(st.mnemonics)
             r == RewriteBlock([code |-> st.code, mnemonics |-> st.mnemonics,
                                prev |-> -1, err |-> "none"], Head(blocks))
         IN  RewriteBlocks([code |-> r.code, mnemonics |-> r.mnemonics,
                            ranges |-> Append(st.ranges, <<fst_mne, Len(r.mnemonics)>>),
                            err |-> r.err], Tail(blocks))

\* A variant that also recomputes each block's area from its mnemonics.
RewriteCommitAreas(self, r) ==
    [self EXCEPT
        !.basic_blocks = [i \in 1 .. Len(@) |->
            LET m0 == r.ranges[i][1]
                m1 == r.ranges[i][2]
            IN  [@[i] EXCEPT !.m0 = m0, !.m1 = m1,
                             !.a0 = IF m0 < m1 THEN r.mnemonics[m0 + 1].start ELSE @,
                             !.a1 = IF m0 < m1 THEN r.mnemonics[m1].end ELSE @]],
        !.mnemonics = r.mnemonics,
        !.code = r.code]

\* The commit of rewrite: the blocks' mnemonic ranges, the mnemonic vector
\* and the IL container are replaced.
RewriteCommit(self, r) ==
    [self EXCEPT
        !.basic_blocks = [i \in 1 .. Len(@) |->
            [@[i] EXCEPT !.m0 = r.ranges[i][1], !.m1 = r.ranges[i][2]]],
        !.mnemonics = r.mnemonics,
        !.code = r.code]

\* A variant that builds the new IL container in place: what was emitted
\* before an error stays in the Function.
rewrite_in_place(self, ed) ==
    LET t == ApplyEdit(ed, View(self))
    IN  IF ~t.ok
        THEN [err |-> "transformer", func |-> self, view |-> t.blocks, fok |-> FALSE]
        ELSE LET r == RewriteBlocks([code |-> <<>>, mnemonics |-> <<>>, ranges |-> <<>>,
                                     err |-> "none"], t.blocks)
             IN  IF r.err # "none"
                 THEN [err |-> r.err, func |-> [self EXCEPT !.code = r.code],
                       view |-> t.blocks, fok |-> TRUE]
                 ELSE [err |-> "none", func |-> RewriteCommit(self, r), view |-> t.blocks,
                       fok |-> TRUE]

\* Function::rewrite(f): [err, func, view, fok]; view is what f left and
\* fok whether f returned Ok.
rewrite(self, ed) ==
    LET t == ApplyEdit(ed, View(self))
    IN  IF ~t.ok
        THEN [err |-> "transformer", func |-> self, view |-> t.blocks, fok |-> FALSE]
        ELSE LET r == RewriteBlocks([code |-> <<>>, mnemonics |-> <<>>, ranges |-> <<>>,
                                     err |-> "none"], t.blocks)
             IN  IF r.err # "none"
                 THEN [err |-> r.err, func |-> self, view |-> t.blocks, fok |-> TRUE]
                 ELSE [err |-> "none", func |-> RewriteCommit(self, r), view |-> t.blocks,
                       fok |-> TRUE]

(***************************************************************************)
(* State.                                                                  *)
(***************************************************************************)
VARIABLES
    decoder,    \* the Architecture (decoder) handed to new and extend
    region,     \* the length of the Region
    start,      \* the entry address handed to Function::new
    func,       \* the Function the caller holds
    pc,         \* "new" / "extend": inside disassemble; "idle": between
                \* calls; "none": new returned Err; "panic": a call panicked
    loc,        \* the locals of the running new / extend
    result,     \* the last call that returned and what it returned
    prev,       \* the Function as it was when the last call began
    hist,       \* inputs of the last assemble / rewrite / resolve
    ops         \* number of mutating calls made after new

vars == <<decoder, region, start, func, pc, loc, result, prev, hist, ops>>

NoLoc == [mnemonics |-> <<>>, src |-> EmptyMap, dst |-> EmptyMap, todo |-> {},
          err |-> FALSE, entry |-> 0]

NoRes == [ret |-> FALSE, var |-> VUndef, val |-> VUndef]

NoHist == [src |-> EmptyMap, dst |-> EmptyMap, vec |-> <<>>, entry |-> 0,
           view |-> <<>>, fok |-> FALSE, res |-> NoRes]

Result(op, err) == [op |-> op, err |-> err]

\* The variables and constants callers resolve indirect jumps with.
ResolveVars == {VVar("A", 1, NoSub), VVar("A", 1, 0), VVar("A", 8, NoSub), VVar("B", 8, NoSub)}
ResolveVals == {VConst(c, 1) : c \in Addrs}

Init ==
    /\ decoder \in Decoders
    /\ region \in 0 .. RegionLen
    /\ start \in Addrs
    /\ func = NewFunction(start)
    /\ pc = "new"
    /\ loc = [NoLoc EXCEPT !.todo = {start}, !.entry = start]
    /\ result = Result("none", "none")
    /\ prev = NewFunction(start)
    /\ hist = NoHist
    /\ ops = 0

(***************************************************************************)
(* Actions.                                                                *)
(***************************************************************************)
\* The end of new / extend once disassemble returned Ok: assemble.
Assemble(op, l) ==
    LET r == assemble(func, l.entry, l.mnemonics, l.src, l.dst)
    IN  /\ func' = r.func
        /\ prev' = func
        /\ result' = Result(op, r.err)
        /\ pc' = IF op = "new" /\ r.err # "none" THEN "none" ELSE "idle"
        /\ hist' = [NoHist EXCEPT !.src = l.src, !.dst = l.dst, !.vec = l.mnemonics,
                                  !.entry = l.entry,
                                  !.res = IF op = "extend" /\ result.op = "resolve"
                                          THEN hist.res ELSE NoRes]
        /\ loc' = NoLoc

\* disassemble returned Err (a Value could not be constructed).
Fail(op) ==
    /\ func' = func
    /\ prev' = func
    /\ result' = Result(op, "value")
    /\ pc' = IF op = "new" THEN "none" ELSE "idle"
    /\ hist' = NoHist
    /\ loc' = NoLoc

\* One iteration of disassemble's loop inside new or extend, for any
\* address of the pending set, then assemble when the set is empty.
Disassemble ==
    /\ pc \in {"new", "extend"}
    /\ \E addr \in loc.todo :
          LET l == disassemble_step(decoder, region, loc, addr)
          IN  IF l.err THEN Fail(pc)
              ELSE IF l.todo = {} THEN Assemble(pc, l)
              ELSE /\ loc' = l
                   /\ UNCHANGED <<func, pc, result, prev, hist>>
    /\ UNCHANGED <<decoder, region, start, ops>>

\* Function::extend up to its call of disassemble (and through assemble
\* when there is nothing to disassemble).
Extend ==
    /\ pc = "idle"
    /\ ops < MaxOps
    /\ ops' = ops + 1
    /\ IF ExtendPanics(func)
       THEN /\ pc' = "panic"
            /\ result' = Result("extend", "panic")
            /\ prev' = func
            /\ hist' = NoHist
            /\ UNCHANGED <<func, loc>>
       ELSE LET l == ExtendLocals(func)
            IN  IF l.todo = {} THEN Assemble("extend", l)
                ELSE /\ loc' = l
                     /\ pc' = "extend"
                     /\ UNCHANGED <<func, result, prev, hist>>
    /\ UNCHANGED <<decoder, region, start>>

\* Function::resolve_indirect_jump(var, val)
Resolve ==
    /\ pc = "idle"
    /\ ops < MaxOps
    /\ ops' = ops + 1
    /\ \E var \in ResolveVars, val \in ResolveVals :
          LET r == resolve_indirect_jump(func, var, val)
          IN  /\ func' = r.func
              /\ prev' = func
              /\ result' = Result("resolve", "none")
              /\ hist' = [NoHist EXCEPT !.res = [ret |-> r.ret, var |-> var, val |-> val]]
    /\ UNCHANGED <<decoder, region, start, pc, loc>>

\* Function::rewrite(f)
Rewrite ==
    /\ pc = "idle"
    /\ ops < MaxOps
    /\ ops' = ops + 1
    /\ IF RewritePanics(func)
       THEN /\ pc' = "panic"
            /\ result' = Result("rewrite", "panic")
            /\ prev' = func
            /\ hist' = NoHist
            /\ UNCHANGED func
       ELSE \E ed \in Edits(View(func)) :
               LET r == rewrite(func, ed)
               IN  /\ func' = r.func
                   /\ prev' = func
                   /\ result' = Result("rewrite", r.err)
                   /\ hist' = [NoHist EXCEPT !.view = r.view, !.fok = r.fok]
                   /\ pc' = pc
    /\ UNCHANGED <<decoder, region, start, loc>>

\* Function::set_plt(name, plt_address)
SetPlt ==
    /\ pc = "idle"
    /\ ops < MaxOps
    /\ func.kind = "Regular"
    /\ ops' = ops + 1
    /\ func' = set_plt(func)
    /\ prev' = func
    /\ result' = Result("set_plt", "none")
    /\ hist' = NoHist
    /\ UNCHANGED <<decoder, region, start, pc, loc>>

Next == Disassemble \/ Extend \/ Resolve \/ Rewrite \/ SetPlt

Spec == Init /\ [][Next]_vars

(***************************************************************************)
(* Properties.                                                             *)
(***************************************************************************)
\* Function::new or Function::extend has just returned Ok.
Assembled == pc = "idle" /\ result.op \in {"new", "extend"} /\ result.err = "none"

\* The blocks (1-based positions) whose area starts at address a.
BlocksAt(self, a) == {i \in 1 .. Len(self.basic_blocks) : self.basic_blocks[i].a0 = a}

\* The four rules of the boundary oracle, as the specification lists them.
OracleRules(a, b, entry, by_source, by_destination) ==
    \/ a.end # b.start
    \/ \E i \in 1 .. Len(by_source[a.start]) :
          by_source[a.start][i].val.k = "const" /\ by_source[a.start][i].val.v # b.start
    \/ \E i \in 1 .. Len(by_destination[b.start]) :
          by_destination[b.start][i].val.k = "const" /\ by_destination[b.start][i].val.v # a.start
    \/ b.start = entry

\* C1: after every successful new and every successful extend exactly one
\* block has area.start equal to the entry address the function was created
\* with, entry_point is the index of that block and entry_address returns
\* that address.
C1_OneEntryBlock ==
    Assembled =>
        /\ Cardinality(BlocksAt(func, start)) = 1
        /\ (func.entry_point + 1) \in BlocksAt(func, start)
        /\ entry_address(func) = start

C3_EdgesMatchJumps ==
    Assembled =>
        \A b \in 1 .. Len(func.basic_blocks) :
            LET bb == func.basic_blocks[b]
                g == func.cflow_graph
                ct == hist.src[func.mnemonics[bb.m1].start]
                out == {i \in 1 .. Len(g.edges) : g.edges[i].src = bb.node}
                tgt(i) == g.nodes[g.edges[i].dst + 1]
                hit(e) == e.val.k = "const" /\ BlocksAt(func, e.val.v) # {}
                toBlock(i, v) == tgt(i).t = "bb" /\ func.basic_blocks[tgt(i).bb + 1].a0 = v
                toValue(i, e) == tgt(i).t = "val" /\ tgt(i).val = e.val
                                 /\ g.edges[i].guard = e.guard
            IN  /\ \A k \in 1 .. Len(ct) :
                      IF hit(ct[k]) THEN \E i \in out : toBlock(i, ct[k].val.v)
                      ELSE \E i \in out : toValue(i, ct[k])
                /\ \A i \in out : \E k \in 1 .. Len(ct) :
                      IF hit(ct[k])
                      THEN toBlock(i, ct[k].val.v) /\ g.edges[i].guard = ct[k].guard
                      ELSE toValue(i, ct[k])
                /\ Cardinality({i \in out : tgt(i).t = "val"})
                      = Cardinality({k \in 1 .. Len(ct) : ~hit(ct[k])})

\* C4: after assemble the blocks' mnemonic ranges are consecutive, non-empty
\* and cover the mnemonic vector once; a block starts at mnemonic i + 1
\* exactly when one of the oracle's rules holds for mnemonics i and i + 1;
\* a chain linked only by jumps to the next mnemonic, and a loop whose only
\* back jump targets the entry, is one block.
C4_PartitionByOracle ==
    Assembled =>
        LET bbs == func.basic_blocks
            mn == func.mnemonics
        IN  /\ bbs # <<>>
            /\ bbs[1].m0 = 0
            /\ bbs[Len(bbs)].m1 = Len(mn)
            /\ \A b \in 1 .. Len(bbs) : bbs[b].m0 < bbs[b].m1
            /\ \A b \in 1 .. (Len(bbs) - 1) : bbs[b].m1 = bbs[b + 1].m0
            /\ \A i \in 1 .. (Len(mn) - 1) :
                  (\E b \in 1 .. Len(bbs) : bbs[b].m0 = i)
                      <=> OracleRules(mn[i], mn[i + 1], hist.entry, hist.src, hist.dst)
            /\ (result.op = "new" /\ (decoder = "chain" \/ (decoder = "loop" /\ start = 0)))
                  => Len(bbs) = 1

\* A three-mnemonic loop back to the entry assembled into one block, and
\* the same loop entered in its middle split in two.
C4_Witness ==
    /\ Assembled /\ result.op = "new"
    /\ decoder = "loop" /\ region = 3
    /\ Len(func.mnemonics) = 3
    /\ start = 0
    /\ Len(func.basic_blocks) = 1

C6_ErrorLeavesFunction ==
    (result.op \in {"extend", "rewrite"} /\ result.err \notin {"none", "panic"}) =>
        /\ func.mnemonics = prev.mnemonics
        /\ func.basic_blocks = prev.basic_blocks
        /\ func.cflow_graph = prev.cflow_graph
        /\ func.code = prev.code
        /\ func.entry_point = prev.entry_point
        /\ func = prev

\* extend failed on a statement push after it had decoded a new mnemonic.
C6_Witness ==
    /\ result.op = "extend" /\ result.err = "push"
    /\ Len(hist.vec) > Len(prev.mnemonics)
    /\ Len(prev.mnemonics) > 0

\* The value nodes (1-based positions) of self that carry variable var.
Carriers(self, var) ==
    {i \in 1 .. Len(self.cflow_graph.nodes) :
        LET n == self.cflow_graph.nodes[i]
        IN  /\ n.t = "val" /\ n.val.k = "var"
            /\ n.val.name = var.name /\ n.val.bits = var.bits /\ n.val.sub = var.sub}

\* C7: resolve_indirect_jump(v, c) returns true exactly when some value
\* node carries the variable v (name, bits and subscript equal); then the
\* payload of one such node becomes the constant c; the number of nodes,
\* every other payload, the edges with their guards, the blocks, the
\* mnemonics and the IL container are unchanged either way.
C7_ResolveIsPointEdit ==
    result.op = "resolve" =>
        LET v == hist.res.var
            c == hist.res.val
            old == prev.cflow_graph.nodes
            new == func.cflow_graph.nodes
        IN  /\ hist.res.ret <=> Carriers(prev, v) # {}
            /\ Len(new) = Len(old)
            /\ IF hist.res.ret
               THEN \E n \in Carriers(prev, v) :
                       /\ new[n] = NodeVal(c)
                       /\ \A i \in 1 .. Len(old) : i # n => new[i] = old[i]
               ELSE new = old
            /\ func.cflow_graph.edges = prev.cflow_graph.edges
            /\ func.basic_blocks = prev.basic_blocks
            /\ func.mnemonics = prev.mnemonics
            /\ func.code = prev.code
            /\ func.entry_point = prev.entry_point

\* A resolve that returned true while two nodes carried the variable.
C7_Witness ==
    /\ result.op = "resolve" /\ hist.res.ret
    /\ Cardinality(Carriers(prev, hist.res.var)) = 2
    /\ Cardinality(Carriers(func, hist.res.var)) = 1

\* A successful extend that directly followed a resolve_indirect_jump that
\* returned true.
ResolvedExtended == Assembled /\ result.op = "extend" /\ hist.res.ret

\* The decoder decodes a mnemonic that starts at address c.
DecodesAt(c) ==
    LET m == Decode(decoder, region, c)
    IN  m.ok /\ \E i \in 1 .. Len(m.mnemonics) : m.mnemonics[i].start = c

\* A jump to variable var was recorded while the running extend
\* disassembled (an entry of by_source behind those taken from the CFG).
NewJumpTo(var) ==
    LET old == EdgeMaps(prev, 1, [src |-> EmptyMap, dst |-> EmptyMap, starts |-> {}]).src
    IN  \E a \in AddrDom : \E k \in (Len(old[a]) + 1) .. Len(hist.src[a]) :
            hist.src[a][k].val = var

\* C8 as stated: after resolve_indirect_jump(v, c) returned true and the
\* following extend succeeded, v is not yielded by indirect_jumps() and, if
\* the decoder decodes a mnemonic at c, a block with area.start = c exists.
C8_Original ==
    ResolvedExtended =>
        /\ hist.res.var \notin Range(indirect_jumps(func))
        /\ DecodesAt(hist.res.val.v) => BlocksAt(func, hist.res.val.v) # {}

\* C8, amended: after resolve_indirect_jump(v, c) returned true and the
\* following extend succeeded, a mnemonic starting at c is in the mnemonic
\* vector (inside some block) if the decoder decodes one at c; and v is not
\* yielded by indirect_jumps() unless another node still carried v after
\* the resolve or the extend recorded a new jump to v.
C8_ResolvedTargetDecoded ==
    ResolvedExtended =>
        LET v == hist.res.var
            c == hist.res.val.v
        IN  /\ DecodesAt(c) =>
                \E i \in 1 .. Len(func.mnemonics) :
                    /\ func.mnemonics[i].start = c
                    /\ \E b \in 1 .. Len(func.basic_blocks) :
                          func.basic_blocks[b].m0 < i /\ i <= func.basic_blocks[b].m1
            /\ (Carriers(prev, v) = {} /\ ~NewJumpTo(v))
                  => v \notin Range(indirect_jumps(func))

\* The extend decoded the resolved target, which became the inside of the
\* block that jumped to it: no block starts there.
C8_Witness ==
    /\ ResolvedExtended
    /\ DecodesAt(hist.res.val.v)
    /\ \A i \in 1 .. Len(prev.mnemonics) : prev.mnemonics[i].start # hist.res.val.v
    /\ \E i \in 1 .. Len(func.mnemonics) : func.mnemonics[i].start = hist.res.val.v
    /\ BlocksAt(func, hist.res.val.v) = {}
    /\ hist.res.var \notin Range(indirect_jumps(func))

\* Some block of the view holds adjacent mnemonics with prev.end # next.start.
HasGap(view) ==
    \E b \in 1 .. Len(view) : \E k \in 1 .. (Len(view[b]) - 1) :
        view[b][k].end # view[b][k + 1].start

\* The view has a gap that rewrite's loop reaches: no statement of a
\* mnemonic in front of the gap's second mnemonic is rejected by the IL
\* container.
ReachesGap(view) ==
    \E b \in 1 .. Len(view) : \E k \in 1 .. (Len(view[b]) - 1) :
        /\ view[b][k].end # view[b][k + 1].start
        /\ \A b2 \in 1 .. b : \A k2 \in 1 .. Len(view[b2]) :
              (b2 < b \/ k2 <= k) =>
                  \A i \in 1 .. Len(view[b2][k2].stmts) : PushOk(view[b2][k2].stmts[i])

HasBad(view) ==
    \E b \in 1 .. Len(view) : \E k \in 1 .. Len(view[b]) :
        \E i \in 1 .. Len(view[b][k].stmts) : ~PushOk(view[b][k].stmts[i])

\* C9 as stated: rewrite returns the non-continuous-block error exactly
\* when, after the transformer ran, some block holds two adjacent mnemonics
\* with prev.end # next.start.
C9_Original ==
    (result.op = "rewrite" /\ result.err # "panic") =>
        (result.err = "gap" <=> HasGap(hist.view))

\* C9, amended: rewrite returns the non-continuous-block error exactly when
\* the transformer returned Ok, some block of the view holds two adjacent
\* mnemonics with prev.end # next.start, and no statement in front of that
\* pair was rejected by the IL container; a view without such a pair and
\* without a rejected statement is accepted, also when it holds a
\* zero-width mnemonic or when the last mnemonic of a block does not end
\* where the next block starts.
C9_GapCheck ==
    (result.op = "rewrite" /\ result.err # "panic") =>
        /\ result.err = "gap" <=> (hist.fok /\ ReachesGap(hist.view))
        /\ (hist.fok /\ ~HasGap(hist.view) /\ ~HasBad(hist.view)) => result.err = "none"

\* An accepted rewrite whose view holds a zero-width mnemonic and two
\* consecutive blocks that are not address-adjacent.
C9_Witness ==
    /\ result.op = "rewrite" /\ result.err = "none"
    /\ \E b \in 1 .. Len(hist.view) : \E k \in 1 .. Len(hist.view[b]) :
          hist.view[b][k].start = hist.view[b][k].end
    /\ \E b \in 1 .. (Len(hist.view) - 1) :
          /\ hist.view[b] # <<>> /\ hist.view[b + 1] # <<>>
          /\ hist.view[b][Len(hist.view[b])].end # hist.view[b + 1][1].start

\* C10: a successful rewrite leaves unchanged the CFG, the number of
\* blocks, each block's node handle and area, entry_point, name, uuid, kind
\* and aliases.
C10_RewriteFrame ==
    (result.op = "rewrite" /\ result.err = "none") =>
        /\ func.cflow_graph = prev.cflow_graph
        /\ Len(func.basic_blocks) = Len(prev.basic_blocks)
        /\ \A b \in 1 .. Len(func.basic_blocks) :
              /\ func.basic_blocks[b].node = prev.basic_blocks[b].node
              /\ func.basic_blocks[b].a0 = prev.basic_blocks[b].a0
              /\ func.basic_blocks[b].a1 = prev.basic_blocks[b].a1
        /\ func.entry_point = prev.entry_point
        /\ func.name = prev.name
        /\ func.uuid = prev.uuid
        /\ func.kind = prev.kind
        /\ func.aliases = prev.aliases

\* A successful rewrite that removed the first mnemonic of a block and
\* changed the IL container.
C10_Witness ==
    /\ result.op = "rewrite" /\ result.err = "none"
    /\ Len(func.mnemonics) < Len(prev.mnemonics)
    /\ func.code # prev.code
    /\ \E b \in 1 .. Len(func.basic_blocks) :
          /\ func.basic_blocks[b].m0 < func.basic_blocks[b].m1
          /\ func.mnemonics[func.basic_blocks[b].m0 + 1].start # func.basic_blocks[b].a0

\* Concatenation of a sequence of sequences.
RECURSIVE Flatten(_)
Flatten(ss) == IF ss = <<>> THEN <<>> ELSE Head(ss) \o Flatten(Tail(ss))

\* The statements the transformer left in one block of the view.
ViewStmts(blk) == Flatten([k \in 1 .. Len(blk) |-> blk[k].stmts])

\* rewrite has just returned Ok.
Rewritten == result.op = "rewrite" /\ result.err = "none"

\* C11: after a successful rewrite, for every block i, mnemonics(i) yields
\* the mnemonics the transformer left in block i of the view, in order,
\* and statements(i) yields their statements in mnemonic order then
\* statement order; a block the transformer did not touch yields the same
\* statements as before the rewrite.
C11_RewriteContents ==
    Rewritten =>
        \A b \in 1 .. Len(func.basic_blocks) :
            LET ms == mnemonics(func, b - 1)
                st == statements(func, b - 1)
                blk == hist.view[b]
            IN  /\ ms.ok
                /\ Len(ms.items) = Len(blk)
                /\ \A k \in 1 .. Len(blk) :
                      /\ ms.items[k].start = blk[k].start
                      /\ ms.items[k].end = blk[k].end
                      /\ ms.items[k].opcode = blk[k].opcode
                /\ st.ok
                /\ st.items = ViewStmts(blk)
                /\ blk = View(prev)[b] => (statements(prev, b - 1).ok
                                            /\ st.items = statements(prev, b - 1).items)

\* rewrite has just returned Ok for a transformer that changed nothing.
IdentityRewrite == Rewritten /\ hist.view = View(prev)

\* C12: after an identity rewrite, statements(..) over the whole IL
\* container yields the same statement sequence as before the rewrite.
C12_IdentityRewriteKeepsIL ==
    IdentityRewrite => statements_all(func) = statements_all(prev)

\* new, extend or rewrite has just returned Ok.
Built == Assembled \/ Rewritten

\* The graph nodes reachable from the entry block of a function.
ReachNodes(self) ==
    IF self.basic_blocks = <<>> THEN {}
    ELSE LET o == DfsPostOrder(self.cflow_graph.edges,
                               <<self.basic_blocks[self.entry_point + 1].node>>, {}, {}, <<>>)
         IN  {o[i] : i \in 1 .. Len(o)}

\* Non-empty statement ranges are pairwise disjoint, lie inside the IL
\* container and cover it.
RangesTile(self) ==
    LET M == self.mnemonics
    IN  /\ \A i, j \in 1 .. Len(M) :
              (i < j /\ M[i].s0 < M[i].s1 /\ M[j].s0 < M[j].s1)
                  => (M[i].s1 <= M[j].s0 \/ M[j].s1 <= M[i].s0)
        /\ \A i \in 1 .. Len(M) : 0 <= M[i].s0 /\ M[i].s0 <= M[i].s1 /\ M[i].s1 <= Len(self.code)
        /\ \A p \in 0 .. Len(self.code) - 1 : \E i \in 1 .. Len(M) : M[i].s0 <= p /\ p < M[i].s1

\* Within block b the ranges of consecutive mnemonics are adjacent and
\* statements(b) is the concatenation of the mnemonics' statements.
BlockIsConcat(self, b) ==
    LET bb == self.basic_blocks[b]
        M == self.mnemonics
    IN  /\ \A k \in bb.m0 + 1 .. bb.m1 - 1 : M[k].s1 = M[k + 1].s0
        /\ statements(self, b - 1).ok
        /\ statements(self, b - 1).items =
               Flatten([k \in 1 .. (bb.m1 - bb.m0) |-> statements_mne(self, M[bb.m0 + k])])

\* The mnemonics of block b have empty statement ranges.
BlockHasNoIL(self, b) ==
    \A k \in self.basic_blocks[b].m0 + 1 .. self.basic_blocks[b].m1 :
        self.mnemonics[k].s0 = self.mnemonics[k].s1

\* C13: after new, extend and rewrite the statement ranges of the
\* mnemonics are pairwise disjoint (empty ones aside), inside the IL
\* container and cover it; within each block consecutive ranges are
\* adjacent, so statements(block) is the concatenation of statements(m);
\* mnemonics of blocks unreachable from the entry have empty ranges.
C13_StatementRanges ==
    Built =>
        /\ RangesTile(func)
        /\ \A b \in 1 .. Len(func.basic_blocks) :
              /\ BlockIsConcat(func, b)
              /\ func.basic_blocks[b].node \notin ReachNodes(func) => BlockHasNoIL(func, b)

\* The depth-first post-order of the graph nodes from the entry block.
PostOrder(self) ==
    IF self.basic_blocks = <<>> THEN <<>>
    ELSE DfsPostOrder(self.cflow_graph.edges,
                      <<self.basic_blocks[self.entry_point + 1].node>>, {}, {}, <<>>)

\* Position of node n in a sequence of nodes (0 when absent).
PosIn(order, n) ==
    IF \E i \in 1 .. Len(order) : order[i] = n
    THEN CHOOSE i \in 1 .. Len(order) : order[i] = n ELSE 0

\* Block a (0-based) has statements and all of them lie in front of the
\* statements of block b, which has some too.
StmtsBefore(self, a, b) ==
    LET ra == into_statement_range(self, a)
        rb == into_statement_range(self, b)
    IN  (ra.ok /\ rb.ok /\ ra.s0 < ra.s1 /\ rb.s0 < rb.s1) => ra.s1 <= rb.s0

\* C14: after assemble the IL container holds the statements of the
\* reachable blocks in reverse post-order: the entry block's statements
\* come first and each block's statements precede those of each successor
\* reached by a non-back edge (an edge to a node finished earlier in the
\* depth-first walk).
C14_ILReversePostorder ==
    Assembled =>
        LET order == PostOrder(func)
            nodes == func.cflow_graph.nodes
            edges == func.cflow_graph.edges
            IsBB(n) == nodes[n + 1].t = "bb"
        IN  /\ \A i \in 1 .. Len(order) :
                  (IsBB(order[i]) /\ nodes[order[i] + 1].bb # func.entry_point)
                      => StmtsBefore(func, func.entry_point, nodes[order[i] + 1].bb)
            /\ \A e \in 1 .. Len(edges) :
                  LET u == edges[e].src
                      v == edges[e].dst
                  IN  (IsBB(u) /\ IsBB(v) /\ PosIn(order, u) > 0
                       /\ PosIn(order, v) < PosIn(order, u))
                          => StmtsBefore(func, nodes[u + 1].bb, nodes[v + 1].bb)

\* C15: after construction and after every successful extend the block
\* vector is in reverse post-order from the entry: the entry block is at
\* index 0, basic_blocks() yields the blocks in that order, and a block
\* comes before each successor it reaches by a non-back edge.
C15_BlocksReversePostorder ==
    Assembled =>
        LET order == PostOrder(func)
            nodes == func.cflow_graph.nodes
            edges == func.cflow_graph.edges
            it == basic_blocks_iter(func)
            IsBB(n) == nodes[n + 1].t = "bb"
        IN  /\ it # <<>> /\ it[1] = func.entry_point
            /\ \A e \in 1 .. Len(edges) :
                  LET u == edges[e].src
                      v == edges[e].dst
                  IN  (IsBB(u) /\ IsBB(v) /\ PosIn(order, u) > 0
                       /\ PosIn(order, v) < PosIn(order, u))
                          => PosIn(it, nodes[u + 1].bb) < PosIn(it, nodes[v + 1].bb)

\* Two mnemonics share at least one address.
Overlap(a, b) == a.start < b.end /\ b.start < a.end

\* C16 as stated: in every Function produced by new, extend or rewrite no
\* two mnemonics overlap.
C16_Original ==
    Built => \A i, j \in 1 .. Len(func.mnemonics) :
                i # j => ~Overlap(func.mnemonics[i], func.mnemonics[j])

\* C16: in every Function produced by new, extend or rewrite no two
\* mnemonics of the same basic block overlap: inside a block each mnemonic
\* starts where the one in front of it ends.  Mnemonics of different
\* blocks may overlap.
C16_NoOverlapInBlock ==
    Built => \A b \in 1 .. Len(func.basic_blocks) :
                LET bb == func.basic_blocks[b]
                    M == func.mnemonics
                IN  /\ \A k \in bb.m0 + 1 .. bb.m1 - 1 : M[k].end = M[k + 1].start
                    /\ \A i, j \in bb.m0 + 1 .. bb.m1 : i # j => ~Overlap(M[i], M[j])

\* Overlapping mnemonics in different blocks next to a block of several
\* mnemonics.
C16_Witness ==
    /\ Built
    /\ \E i, j \in 1 .. Len(func.mnemonics) :
          i # j /\ Overlap(func.mnemonics[i], func.mnemonics[j])
    /\ \E b \in 1 .. Len(func.basic_blocks) :
          func.basic_blocks[b].m1 - func.basic_blocks[b].m0 >= 2

\* disassemble has returned Ok inside the last new or extend; hist.vec is
\* the mnemonic vector it left.
Disassembled == result.op \in {"new", "extend"} /\ result.err \in {"none", "entry", "push"}

\* C17: when disassemble returns, the mnemonic vector is sorted strictly
\* ascending by area.start, whatever the decoder returned (a match with
\* several mnemonics included) and in whatever order addresses were popped.
C17_VectorSorted ==
    Disassembled =>
        \A i \in 1 .. Len(hist.vec) - 1 : hist.vec[i].start < hist.vec[i + 1].start

\* C18: after construction and after every successful extend or rewrite,
\* whatever transformer rewrite accepted, the mnemonic range of every
\* block is non-empty.
C18_BlocksNonEmpty ==
    Built => \A b \in 1 .. Len(func.basic_blocks) :
                func.basic_blocks[b].m0 < func.basic_blocks[b].m1

\* C19: after construction and after every successful extend or rewrite
\* the area of each block that has mnemonics is
\* [first mnemonic's start, last mnemonic's end).
C19_AreaFromMnemonics ==
    Built => \A b \in 1 .. Len(func.basic_blocks) :
                LET bb == func.basic_blocks[b]
                IN  bb.m0 < bb.m1 => /\ bb.a0 = func.mnemonics[bb.m0 + 1].start
                                     /\ bb.a1 = func.mnemonics[bb.m1].end

\* Entry k of jump list ct names block number pos (0-based) of bbs.
NamesBlock(bbs, ct, k, pos) ==
    /\ ct[k].val.k = "const"
    /\ BinarySearch(BlockStarts(bbs), ct[k].val.v).found
    /\ BinarySearch(BlockStarts(bbs), ct[k].val.v).pos = pos

\* The edges of graph g from node a to node b.
EdgesBetween(g, a, b) == {i \in 1 .. Len(g.edges) : g.edges[i].src = a /\ g.edges[i].dst = b}

\* C20: the control flow graph never holds two edges with the same
\* (source, target) pair; when the jump list of a block names the same
\* target block more than once, one edge results and it carries the guard
\* of the last such entry.
C20_EdgeUpsert ==
    /\ \A i, j \in 1 .. Len(func.cflow_graph.edges) :
          (func.cflow_graph.edges[i].src = func.cflow_graph.edges[j].src
           /\ func.cflow_graph.edges[i].dst = func.cflow_graph.edges[j].dst) => i = j
    /\ Assembled =>
          \A b \in 1 .. Len(func.basic_blocks) :
              LET bbs == func.basic_blocks
                  ct == hist.src[hist.vec[bbs[b].m1].start]
              IN  \A k \in 1 .. Len(ct), t \in 1 .. Len(bbs) :
                      (/\ NamesBlock(bbs, ct, k, t - 1)
                       /\ \A k2 \in k + 1 .. Len(ct) : ~NamesBlock(bbs, ct, k2, t - 1))
                          => LET es == EdgesBetween(func.cflow_graph, bbs[b].node, bbs[t].node)
                             IN  /\ Cardinality(es) = 1
                                 /\ \A e \in es : func.cflow_graph.edges[e].guard = ct[k].guard

\* A block whose jump list names one target block twice, with two guards.
C20_Witness ==
    /\ Assembled
    /\ \E b \in 1 .. Len(func.basic_blocks) :
          LET bbs == func.basic_blocks
              ct == hist.src[hist.vec[bbs[b].m1].start]
          IN  \E k, k2 \in 1 .. Len(ct), t \in 1 .. Len(bbs) :
                  /\ k < k2
                  /\ NamesBlock(bbs, ct, k, t - 1)
                  /\ NamesBlock(bbs, ct, k2, t - 1)
                  /\ ct[k].guard # ct[k2].guard

\* The locals new or extend handed to the disassemble call that has just
\* returned.
CallLocals ==
    IF result.op = "new" THEN [NoLoc EXCEPT !.todo = {start}, !.entry = start]
    ELSE ExtendLocals(prev)

\* Two jump lists hold the same entries, in whatever order.
SameEntries(s, t) ==
    /\ Len(s) = Len(t)
    /\ \A x \in {s[i] : i \in 1 .. Len(s)} \cup {t[i] : i \in 1 .. Len(t)} :
          Cardinality({i \in 1 .. Len(s) : s[i] = x}) = Cardinality({i \in 1 .. Len(t) : t[i] = x})

\* C21: for a fixed decoder, region and seed set, the mnemonic vector, the
\* jump maps as the assembler uses them (by_source lists in order,
\* by_destination lists as collections), the block partition, the graph
\* and the IL that new or extend produce are those produced when the
\* pending addresses are popped smallest first, whatever order was taken.
C21_PopOrderIndependent ==
    Disassembled =>
        LET c == disassemble_ascending(decoder, region, CallLocals)
        IN  /\ ~c.err
            /\ hist.vec = c.mnemonics
            /\ hist.src = c.src
            /\ \A a \in DOMAIN c.dst : SameEntries(hist.dst[a], c.dst[a])
            /\ result.err = assemble(prev, c.entry, c.mnemonics, c.src, c.dst).err
            /\ func = assemble(prev, c.entry, c.mnemonics, c.src, c.dst).func

\* C26: after new and after extend, in every block only the first
\* mnemonic is the target of a jump from a mnemonic other than the one in
\* front of it, and only the last mnemonic has a recorded jump (to a
\* constant, a variable or undefined) to anything but the start of the
\* next mnemonic of the block; so every jump the decoder emitted for a
\* mnemonic that is not the last of its block is the fall-through.
C26_JumpsOnlyAtBlockEnds ==
    Assembled =>
        \A b \in 1 .. Len(func.basic_blocks) :
            LET bb == func.basic_blocks[b]
                M == func.mnemonics
            IN  /\ \A k \in bb.m0 + 2 .. bb.m1 :
                      \A i \in 1 .. Len(hist.dst[M[k].start]) :
                          hist.dst[M[k].start][i].val.v = M[k - 1].start
                /\ \A k \in bb.m0 + 1 .. bb.m1 - 1 :
                      \A i \in 1 .. Len(hist.src[M[k].start]) :
                          /\ hist.src[M[k].start][i].val.k = "const"
                          /\ hist.src[M[k].start][i].val.v = M[k + 1].start

\* C27: after construction or extend at most one UnresolvedTarget node
\* carries any given variable: indirect_jumps() yields no variable twice,
\* and a resolve_indirect_jump(v, c) that returned true leaves no node
\* carrying v.
C27_OneNodePerVariable ==
    /\ Assembled =>
          \A i, j \in 1 .. Len(indirect_jumps(func)) :
              indirect_jumps(func)[i] = indirect_jumps(func)[j] => i = j
    /\ (result.op = "resolve" /\ hist.res.ret) =>
          \A i \in 1 .. Len(indirect_jumps(func)) : indirect_jumps(func)[i] # hist.res.var

\* The decoder dec with every jump to variable var (name and size) turned
\* into a jump to the constant val.
DecodeResolved(dec, var, val, n, a) ==
    LET m == Decode(dec, n, a)
    IN  [m EXCEPT !.jumps =
            [i \in 1 .. Len(m.jumps) |->
                IF m.jumps[i].tgt.k = "var" /\ m.jumps[i].tgt.name = var.name
                                            /\ m.jumps[i].tgt.bits = var.bits
                THEN [m.jumps[i] EXCEPT !.tgt = RConst(val.v, val.bits)]
                ELSE m.jumps[i]]]

\* disassemble with that decoder, the smallest pending address first.
RECURSIVE DisassembleResolved(_, _, _, _, _)
DisassembleResolved(dec, var, val, n, l) ==
    IF l.err \/ l.todo = {} THEN l
    ELSE LET addr == CHOOSE a \in l.todo : \A b \in l.todo : a <= b
         IN  DisassembleResolved(dec, var, val, n,
                 disassemble_decoded(DecodeResolved(dec, var, val, n, addr), l, addr))

\* Function::new(start, region) with that decoder: [func, err].
NewResolved(dec, var, val, n, entry) ==
    LET l == DisassembleResolved(dec, var, val, n,
                 [NoLoc EXCEPT !.todo = {entry}, !.entry = entry])
    IN  IF l.err THEN [func |-> NewFunction(entry), err |-> "value"]
        ELSE assemble(NewFunction(entry), entry, l.mnemonics, l.src, l.dst)

\* The partition of a function: the areas of its blocks.
Areas(self) ==
    {<<self.basic_blocks[b].a0, self.basic_blocks[b].a1>> : b \in 1 .. Len(self.basic_blocks)}

\* The control flow graph of a function with node and block indices
\* replaced by what they stand for: source block area, target (block area
\* or value) and guard of every edge.
EdgesByArea(self) ==
    LET g == self.cflow_graph
        area(n) == LET b == self.basic_blocks[g.nodes[n + 1].bb + 1] IN <<b.a0, b.a1>>
        tgt(n) == IF g.nodes[n + 1].t = "bb" THEN [t |-> "bb", area |-> area(n), val |-> VUndef]
                  ELSE [t |-> "val", area |-> <<0, 0>>, val |-> g.nodes[n + 1].val]
    IN  {[src |-> area(g.edges[e].src), dst |-> tgt(g.edges[e].dst), guard |-> g.edges[e].guard]
            : e \in 1 .. Len(g.edges)}

\* C28: after resolve_indirect_jump(v, c) returned true and the following
\* extend succeeded, the partition and the control flow graph are those
\* Function::new builds from the same entry and region with a decoder that
\* emits the constant c wherever the original emits the variable v.
C28_ExtendEqualsNew ==
    ResolvedExtended =>
        LET r == NewResolved(decoder, hist.res.var, hist.res.val, region, start)
        IN  /\ r.err = "none"
            /\ Areas(func) = Areas(r.func)
            /\ EdgesByArea(func) = EdgesByArea(r.func)

\* C29: a successful extend keeps the IL statements of every mnemonic the
\* function held before: the function still holds the mnemonic, and the
\* statements read through its range are those read before the extend.
C29_ExtendKeepsIL ==
    (Assembled /\ result.op = "extend") =>
        \A i \in 1 .. Len(prev.mnemonics) :
            \E j \in 1 .. Len(func.mnemonics) :
                /\ func.mnemonics[j].start = prev.mnemonics[i].start
                /\ func.mnemonics[j].end = prev.mnemonics[i].end
                /\ func.mnemonics[j].opcode = prev.mnemonics[i].opcode
                /\ statements_mne(func, func.mnemonics[j]) = statements_mne(prev, prev.mnemonics[i])

\* C30: after a successful Function::new the node of every basic block is
\* reachable from the node of the entry block, so the statements of every
\* decoded mnemonic are in the IL container.
C30_AllBlocksReachable ==
    (Assembled /\ result.op = "new") =>
        /\ \A b \in 1 .. Len(func.basic_blocks) :
              func.basic_blocks[b].node \in ReachNodes(func)
        /\ \A i \in 1 .. Len(func.mnemonics) :
              \E m \in Range(Decode(decoder, region, func.mnemonics[i].start).mnemonics) :
                  /\ m.start = func.mnemonics[i].start
                  /\ m.end = func.mnemonics[i].end
                  /\ statements_mne(func, func.mnemonics[i]) = [s \in 1 .. Len(m.stmts) |-> m.stmts[s]]

(***************************************************************************)
(* Termination of disassemble.  The loop never reads by_source and         *)
(* by_destination, it only pushes to them, so its control flow depends on  *)
(* the mnemonic vector and the pending set alone; LoopSpec runs the loop   *)
(* of Function::new with the two maps left out.                            *)
(***************************************************************************)

\* The decoders of the runs of the loop alone: those of Decoders, two
\* whose jumps form a cycle and one that jumps into a decoded mnemonic.
LoopDecoders == Decoders \cup {"ghost", "pairsloop", "inside"}

LoopInit ==
    /\ decoder \in LoopDecoders
    /\ region \in 0 .. RegionLen
    /\ start \in Addrs
    /\ func = NewFunction(start)
    /\ pc = "new"
    /\ loc = [NoLoc EXCEPT !.todo = {start}, !.entry = start]
    /\ result = Result("none", "none")
    /\ prev = NewFunction(start)
    /\ hist = NoHist
    /\ ops = 0

\* One iteration of the loop of disassemble; pc becomes "returned" when
\* the loop ends (pending set empty, or Err).
DisassembleLoop ==
    /\ pc = "new"
    /\ \E addr \in loc.todo :
          LET l == disassemble_step(decoder, region, loc, addr)
          IN  /\ loc' = [l EXCEPT !.src = EmptyMap, !.dst = EmptyMap]
              /\ pc' = IF l.err \/ l.todo = {} THEN "returned" ELSE "new"
    /\ UNCHANGED <<decoder, region, start, func, result, prev, hist, ops>>

\* The loop is sequential code: an iteration that can run does run.
LoopSpec == LoopInit /\ [][DisassembleLoop]_vars /\ WF_vars(DisassembleLoop)

\* C22: disassemble terminates for every finite region and every decoder:
\* the pending set becomes empty, also when the code has loops, when
\* decoding fails at an address and when a decode result carries jumps
\* but no mnemonics.
C22_Terminates == <>(pc = "returned")

\* C23: contains(addr) returns true if and only if some block b satisfies
\* b.area.start <= addr < b.area.end.
C23_ContainsIffCovered ==
    Built => \A addr \in AddrDom :
                contains(func, addr) <=>
                    \E b \in 1 .. Len(func.basic_blocks) :
                        func.basic_blocks[b].a0 <= addr /\ addr < func.basic_blocks[b].a1

\* The items and the len() outcomes of a sequence of calls ("next" or
\* "back") on an iterator: a sequence of [item, len], len taken before the
\* call.
RECURSIVE Drive(_, _)
Drive(it, calls) ==
    IF calls = <<>> THEN <<>>
    ELSE LET r == IF Head(calls) = "next" THEN iter_next(it) ELSE iter_next_back(it)
         IN  <<[item |-> r.item, len |-> iter_len(it)]>> \o Drive(r.it, Tail(calls))

\* C24: the iterator of basic_blocks() yields every block exactly once:
\* only next yields 0 .. n-1 ascending, only next_back yields n-1 down to
\* 0, any interleaving yields each block once and then None, and len() is
\* always the number of items still to be yielded.
C24_BlockIterator ==
    Built =>
        LET n == Len(func.basic_blocks)
        IN  \A calls \in [1 .. n + 1 -> {"next", "back"}] :
                LET out == Drive(BasicBlockIterator(func), calls)
                IN  /\ \A i \in 1 .. n : out[i].item \in 0 .. n - 1
                    /\ \A i, j \in 1 .. n : i # j => out[i].item # out[j].item
                    /\ out[n + 1].item = None
                    /\ \A i \in 1 .. n + 1 : out[i].len = {n - (i - 1)}
                    /\ (\A i \in 1 .. n + 1 : calls[i] = "next")
                          => \A i \in 1 .. n : out[i].item = i - 1
                    /\ (\A i \in 1 .. n + 1 : calls[i] = "back")
                          => \A i \in 1 .. n : out[i].item = n - i

\* Address a lies strictly inside a mnemonic of the vector.
StrictlyInside(a, vec) == \E i \in 1 .. Len(vec) : vec[i].start < a /\ a < vec[i].end

\* C25: when disassemble pops an address that lies strictly inside an
\* already decoded mnemonic, it does not decode there and adds no mnemonic
\* to the vector (stated for an iteration in which every pending address
\* is such an address, so whichever is popped).
C25_NoDecodeInside ==
    [][(pc = "new" /\ loc.todo # {} /\ \A a \in loc.todo : StrictlyInside(a, loc.mnemonics))
          => loc'.mnemonics = loc.mnemonics]_vars

====
